---- MODULE Spec2Model ----
(***************************************************************************)
(* A model of django-flexible-subscriptions (src/subscriptions/models.py): *)
(* the tables the models declare, the manager methods and properties that  *)
(* read them, and the billing-date arithmetic of PlanCost.                 *)
(*                                                                         *)
(* Time in the subscription tables is counted in ticks, DayLen ticks to a  *)
(* day, so that timedelta.days (a floor) is distinguishable from the raw   *)
(* difference.  The billing-date arithmetic uses Python's own datetime     *)
(* representation (ordinal day, second, microsecond).                      *)
(***************************************************************************)
EXTENDS Integers, Sequences, FiniteSets, TLC

VARIABLES users, groups, plans, currencies, costs, retries, subs, txns,
          lists, details, now, ret

vars == <<users, groups, plans, currencies, costs, retries, subs, txns,
          lists, details, now, ret>>

\* ------------------------------------------------------------------ bounds
MaxTime == 2
DayLen == 2
MaxRetries == 2
MaxOffset == 1
MaxIteration == 2
MaxPeriod == 200

\* Row identities (UUIDs and auto primary keys).
UserIds == {"u1"}
GroupIds == {"g1"}
PlanIds == {"p1"}
CurrencyIds == {"c1"}
CostIds == {"k1"}
SubIds == {"s1", "s2"}
RetryIds == 1..MaxRetries
TxnIds == {"t1"}
ListIds == {"l1"}
DetailIds == {"d1"}

\* ------------------------------------------------------- nullable columns
NULL == "NULL"
None == <<>>
Some(x) == <<x>>
IsNone(o) == o = <<>>
Val(o) == o[1]

Dates == {None} \cup {Some(t) : t \in 0..MaxTime}

\* Values of the nullable amount column.
Amounts == {None, Some(1)}

\* ------------------------------------------------------ program constants
ONCE == "0"
SECOND == "1"
MINUTE == "2"
HOUR == "3"
DAY == "4"
WEEK == "5"
MONTH == "6"
YEAR == "7"
RECURRENCE_UNIT_CHOICES == {ONCE, SECOND, MINUTE, HOUR, DAY, WEEK, MONTH, YEAR}

PAYMENT == "P"
REFUND == "R"
CANCEL == "C"
TRANSACTION_TYPES == {PAYMENT, REFUND, CANCEL}

RUNNING == "R"
RETRYING == "T"
FAILED == "F"
RENEWAL_CHOICES == {RUNNING, RETRYING, FAILED}

\* ------------------------------------------------------------ return values
\* ret is the call made by the last step: its name, argument and result.
Call(op, arg, val) == [op |-> op, arg |-> arg, val |-> val]
NoCall == Call("none", <<>>, <<>>)
Ok(v) == [kind |-> "ok", value |-> v]
Raise(e) == [kind |-> e, value |-> <<>>]

\* ------------------------------------------------------------ table helpers
Insert(table, id, row) == table @@ (id :> row)
Remove(table, ids) == [x \in (DOMAIN table) \ ids |-> table[x]]

\* ----------------------------------------------------------- UserSubscription
\* Field defaults of the UserSubscription model.
UserSubscriptionDefaults ==
    [user |-> NULL, subscription |-> NULL,
     date_billing_start |-> None, date_billing_end |-> None,
     date_billing_last |-> None, date_billing_next |-> None,
     active |-> TRUE, cancelled |-> FALSE,
     renewal_status |-> RUNNING, retry |-> None]

\* Faulty variant: the first billing is scheduled at once.
AttachedRowBilledNow(plan_cost, user, t) ==
    [UserSubscriptionDefaults EXCEPT
        !.user = user, !.subscription = plan_cost, !.active = TRUE,
        !.date_billing_start = Some(t), !.date_billing_next = Some(t)]

\* UserSubscription.objects.create(user=, subscription=, active=True,
\* date_billing_start=timezone.now())
AttachedRow(plan_cost, user, t) ==
    [UserSubscriptionDefaults EXCEPT
        !.user = user, !.subscription = plan_cost, !.active = TRUE,
        !.date_billing_start = Some(t)]

\* difference.days of timezone.now() - self.date_billing_last
transaction_ago(sub, t) ==
    IF IsNone(sub.date_billing_last)
    THEN Raise("TypeError")
    ELSE Ok((t - Val(sub.date_billing_last)) \div DayLen)

\* Faulty variant: the offset must be exceeded, not merely reached.
for_retry_strict(sub, t) ==
    IF IsNone(sub.retry)
    THEN Ok(FALSE)
    ELSE LET ago == transaction_ago(sub, t)
         IN IF ago.kind # "ok"
            THEN ago
            ELSE Ok(ago.value > retries[Val(sub.retry)].retry_offset)

for_retry(sub, t) ==
    IF IsNone(sub.retry)
    THEN Ok(FALSE)
    ELSE LET ago == transaction_ago(sub, t)
         IN IF ago.kind # "ok"
            THEN ago
            ELSE Ok(ago.value >= retries[Val(sub.retry)].retry_offset)

\* The rows failed_renewals filters before it asks each for for_retry.
failed_renewals_queryset ==
    {s \in DOMAIN subs :
        /\ subs[s].active = TRUE
        /\ subs[s].cancelled = FALSE
        /\ subs[s].renewal_status = RETRYING}

failed_renewals(t) ==
    LET q == failed_renewals_queryset
    IN IF \E s \in q : for_retry(subs[s], t).kind # "ok"
       THEN Raise("TypeError")
       ELSE Ok({s \in q : for_retry(subs[s], t).value})

\* Faulty variant: date_billing_next__lt in place of __lte.
to_charge_lt(t) ==
    {s \in DOMAIN subs :
        /\ subs[s].active = TRUE
        /\ subs[s].cancelled = FALSE
        /\ ~IsNone(subs[s].date_billing_next)
        /\ Val(subs[s].date_billing_next) < t}

to_charge(t) ==
    {s \in DOMAIN subs :
        /\ subs[s].active = TRUE
        /\ subs[s].cancelled = FALSE
        /\ ~IsNone(subs[s].date_billing_next)
        /\ Val(subs[s].date_billing_next) <= t}

\* ------------------------------------------------------------- PaymentRetry
\* self.get(iteration=n): the one matching row, or the ORM's exception.
RetryGet(n) ==
    LET match == {r \in DOMAIN retries : retries[r].iteration = n}
    IN IF match = {} THEN Raise("DoesNotExist")
       ELSE IF Cardinality(match) > 1 THEN Raise("MultipleObjectsReturned")
       ELSE Ok(CHOOSE r \in match : TRUE)

first_try == RetryGet(1)

\* Faulty variant: looks up the current iteration instead of the one after it.
RetryNextSame(current) ==
    LET got == RetryGet(current)
    IN IF got.kind = "DoesNotExist" THEN Ok(None)
       ELSE IF got.kind = "ok" THEN Ok(Some(got.value))
       ELSE got

RetryNextOf(current) ==
    LET got == RetryGet(current + 1)
    IN IF got.kind = "DoesNotExist" THEN Ok(None)
       ELSE IF got.kind = "ok" THEN Ok(Some(got.value))
       ELSE got

\* ------------------------------------------------------------------ actions
Tick ==
    /\ now < MaxTime
    /\ now' = now + 1
    /\ ret' = NoCall
    /\ UNCHANGED <<users, groups, plans, currencies, costs, retries, subs,
                   txns, lists, details>>

AttachSubscription(plan_cost, user) ==
    /\ plan_cost \in DOMAIN costs
    /\ user \in users
    /\ \E s \in SubIds \ DOMAIN subs :
          /\ subs' = Insert(subs, s, AttachedRow(plan_cost, user, now))
          /\ ret' = Call("attach_subscription", <<plan_cost, user>>, s)
    /\ UNCHANGED <<users, groups, plans, currencies, costs, retries, txns,
                   lists, details, now>>

\* setattr(subscription, field, value); subscription.save()
SaveSubscription(s, field, value) ==
    /\ s \in DOMAIN subs
    /\ subs' = [subs EXCEPT ![s][field] = value]
    /\ ret' = NoCall
    /\ UNCHANGED <<users, groups, plans, currencies, costs, retries, txns,
                   lists, details, now>>

CallToCharge ==
    /\ ret' = Call("to_charge", <<>>, to_charge(now))
    /\ UNCHANGED <<users, groups, plans, currencies, costs, retries, subs,
                   txns, lists, details, now>>

CallFailedRenewals ==
    /\ ret' = Call("failed_renewals", <<>>, failed_renewals(now))
    /\ UNCHANGED <<users, groups, plans, currencies, costs, retries, subs,
                   txns, lists, details, now>>

\* PaymentRetry.objects.create(iteration=, retry_offset=), stored as row r.
CreateRetry(r, iteration, retry_offset) ==
    /\ r \notin DOMAIN retries
    /\ retries' = Insert(retries, r,
                         [iteration |-> iteration,
                          retry_offset |-> retry_offset])
    /\ ret' = NoCall
    /\ UNCHANGED <<users, groups, plans, currencies, costs, subs, txns,
                   lists, details, now>>

CallFirstTry ==
    /\ ret' = Call("first_try", <<>>, first_try)
    /\ UNCHANGED <<users, groups, plans, currencies, costs, retries, subs,
                   txns, lists, details, now>>

CallRetryNext(current) ==
    /\ ret' = Call("next", current, RetryNextOf(current))
    /\ UNCHANGED <<users, groups, plans, currencies, costs, retries, subs,
                   txns, lists, details, now>>

\* The flag columns every queryset filter reads.
FlagEdits ==
    ({"active", "cancelled"} \X BOOLEAN)
        \cup ({"renewal_status"} \X RENEWAL_CHOICES)

\* Columns rewritten where to_charge is studied.
ChargeEdits == FlagEdits \cup ({"date_billing_next"} \X Dates)

\* Columns rewritten where the retry schedule is studied.
RenewalEdits ==
    FlagEdits
        \cup ({"date_billing_last"} \X Dates)
        \cup ({"retry"} \X ({None} \cup {Some(r) : r \in DOMAIN retries}))

PlanCostDefaults(plan, currency) ==
    [plan |-> plan, currency |-> currency,
     recurrence_unit |-> MONTH, recurrence_period |-> 1]

\* One user, one plan with one cost, nothing subscribed.
InitCatalogue ==
    /\ users = UserIds
    /\ groups = GroupIds
    /\ plans = [p \in PlanIds |-> [group |-> NULL]]
    /\ currencies = CurrencyIds
    /\ costs = [k \in CostIds |-> PlanCostDefaults("p1", "c1")]
    /\ txns = <<>>
    /\ lists = {}
    /\ details = <<>>
    /\ now = 0
    /\ ret = NoCall

\* ------------------------------------------------------------ on_delete rules
\* Faulty variants: a rule declared as the other one.
DeclaredSetNull == "SET_NULL"
DeclaredCascade == "CASCADE"

SubscriptionPlan_group_on_delete == "SET_NULL"
PlanCost_plan_on_delete == "CASCADE"
PlanCost_currency_on_delete == "CASCADE"
UserSubscription_user_on_delete == "CASCADE"
UserSubscription_subscription_on_delete == "CASCADE"
UserSubscription_retry_on_delete == "CASCADE"
SubscriptionTransaction_user_on_delete == "SET_NULL"
SubscriptionTransaction_subscription_on_delete == "SET_NULL"
PlanListDetail_plan_on_delete == "CASCADE"
PlanListDetail_plan_list_on_delete == "CASCADE"

\* A foreign key whose target is being deleted takes the row with it under
\* CASCADE, is nulled under SET_NULL, and is left as it is otherwise.
Cascades(rule, ref, gone) == rule = "CASCADE" /\ ref \in gone
AfterDelete(rule, ref, gone, null) ==
    IF rule = "SET_NULL" /\ ref \in gone THEN null ELSE ref

\* QuerySet/Model.delete() of the given rows: the rows every CASCADE reaches
\* go with them, every SET_NULL reference to a deleted row is nulled, and
\* the number of rows deleted is returned.
Delete(dUsers, dGroups, dPlans, dCurrencies, dCosts, dRetries, dSubs, dTxns, dLists, dDetails) ==
    LET goneRetries == {Some(r) : r \in dRetries}
        goneCosts == dCosts \cup
            {k \in DOMAIN costs :
                \/ Cascades(PlanCost_plan_on_delete, costs[k].plan, dPlans)
                \/ Cascades(PlanCost_currency_on_delete, costs[k].currency,
                            dCurrencies)}
        goneSubs == dSubs \cup
            {s \in DOMAIN subs :
                \/ Cascades(UserSubscription_user_on_delete, subs[s].user,
                            dUsers)
                \/ Cascades(UserSubscription_subscription_on_delete,
                            subs[s].subscription, goneCosts)
                \/ Cascades(UserSubscription_retry_on_delete, subs[s].retry,
                            goneRetries)}
        goneTxns == dTxns \cup
            {t \in DOMAIN txns :
                \/ Cascades(SubscriptionTransaction_user_on_delete,
                            txns[t].user, dUsers)
                \/ Cascades(SubscriptionTransaction_subscription_on_delete,
                            txns[t].subscription, goneCosts)}
        goneDetails == dDetails \cup
            {d \in DOMAIN details :
                \/ Cascades(PlanListDetail_plan_on_delete, details[d].plan,
                            goneCosts)
                \/ Cascades(PlanListDetail_plan_list_on_delete,
                            details[d].plan_list, dLists)}
        gonePlans == dPlans \cup
            {p \in DOMAIN plans :
                Cascades(SubscriptionPlan_group_on_delete, plans[p].group,
                         dGroups)}
    IN /\ users' = users \ dUsers
       /\ groups' = groups \ dGroups
       /\ currencies' = currencies \ dCurrencies
       /\ lists' = lists \ dLists
       /\ retries' = Remove(retries, dRetries)
       /\ plans' = [p \in (DOMAIN plans) \ gonePlans |->
            [plans[p] EXCEPT !.group =
                AfterDelete(SubscriptionPlan_group_on_delete, @, dGroups,
                            NULL)]]
       /\ costs' = [k \in (DOMAIN costs) \ goneCosts |->
            [costs[k] EXCEPT
                !.plan = AfterDelete(PlanCost_plan_on_delete, @, dPlans, NULL),
                !.currency = AfterDelete(PlanCost_currency_on_delete, @,
                                         dCurrencies, NULL)]]
       /\ subs' = [s \in (DOMAIN subs) \ goneSubs |->
            [subs[s] EXCEPT
                !.user = AfterDelete(UserSubscription_user_on_delete, @,
                                     dUsers, NULL),
                !.subscription =
                    AfterDelete(UserSubscription_subscription_on_delete, @,
                                goneCosts, NULL),
                !.retry = AfterDelete(UserSubscription_retry_on_delete, @,
                                      goneRetries, None)]]
       /\ txns' = [t \in (DOMAIN txns) \ goneTxns |->
            [txns[t] EXCEPT
                !.user = AfterDelete(SubscriptionTransaction_user_on_delete,
                                     @, dUsers, NULL),
                !.subscription =
                    AfterDelete(SubscriptionTransaction_subscription_on_delete,
                                @, goneCosts, NULL)]]
       /\ details' = [d \in (DOMAIN details) \ goneDetails |->
            [details[d] EXCEPT
                !.plan = AfterDelete(PlanListDetail_plan_on_delete, @,
                                     goneCosts, NULL),
                !.plan_list = AfterDelete(PlanListDetail_plan_list_on_delete,
                                          @, dLists, NULL)]]
       /\ ret' = Call("delete",
                      <<dUsers, dGroups, dPlans, dCurrencies, dCosts,
                        dRetries, dSubs, dTxns, dLists, dDetails>>,
                      Cardinality(dUsers) + Cardinality(dGroups)
                        + Cardinality(dCurrencies) + Cardinality(dLists)
                        + Cardinality(dRetries) + Cardinality(gonePlans)
                        + Cardinality(goneCosts) + Cardinality(goneSubs)
                        + Cardinality(goneTxns) + Cardinality(goneDetails))
       /\ UNCHANGED now

DeleteUser(u) ==
    u \in users /\ Delete({u}, {}, {}, {}, {}, {}, {}, {}, {}, {})
DeleteGroup(g) ==
    g \in groups /\ Delete({}, {g}, {}, {}, {}, {}, {}, {}, {}, {})
DeletePlan(p) ==
    p \in DOMAIN plans /\ Delete({}, {}, {p}, {}, {}, {}, {}, {}, {}, {})
DeleteCurrency(c) ==
    c \in currencies /\ Delete({}, {}, {}, {c}, {}, {}, {}, {}, {}, {})
DeleteCost(k) ==
    k \in DOMAIN costs /\ Delete({}, {}, {}, {}, {k}, {}, {}, {}, {}, {})
DeleteRetry(r) ==
    r \in DOMAIN retries /\ Delete({}, {}, {}, {}, {}, {r}, {}, {}, {}, {})
DeleteSubscription(s) ==
    s \in DOMAIN subs /\ Delete({}, {}, {}, {}, {}, {}, {s}, {}, {}, {})
DeleteTransaction(t) ==
    t \in DOMAIN txns /\ Delete({}, {}, {}, {}, {}, {}, {}, {t}, {}, {})
DeleteList(l) ==
    l \in lists /\ Delete({}, {}, {}, {}, {}, {}, {}, {}, {l}, {})
DeleteDetail(d) ==
    d \in DOMAIN details /\ Delete({}, {}, {}, {}, {}, {}, {}, {}, {}, {d})

\* ------------------------------------------------------------------ creation
CreateUser(u) ==
    /\ u \notin users
    /\ users' = users \cup {u}
    /\ ret' = NoCall
    /\ UNCHANGED <<groups, plans, currencies, costs, retries, subs, txns,
                   lists, details, now>>

CreateGroup(g) ==
    /\ g \notin groups
    /\ groups' = groups \cup {g}
    /\ ret' = NoCall
    /\ UNCHANGED <<users, plans, currencies, costs, retries, subs, txns,
                   lists, details, now>>

CreatePlan(p, group) ==
    /\ p \notin DOMAIN plans
    /\ group \in groups \cup {NULL}
    /\ plans' = Insert(plans, p, [group |-> group])
    /\ ret' = NoCall
    /\ UNCHANGED <<users, groups, currencies, costs, retries, subs, txns,
                   lists, details, now>>

CreateCurrency(c) ==
    /\ c \notin currencies
    /\ currencies' = currencies \cup {c}
    /\ ret' = NoCall
    /\ UNCHANGED <<users, groups, plans, costs, retries, subs, txns, lists,
                   details, now>>

CreateCost(k, plan, currency) ==
    /\ k \notin DOMAIN costs
    /\ plan \in DOMAIN plans
    /\ currency \in currencies \cup {NULL}
    /\ costs' = Insert(costs, k, PlanCostDefaults(plan, currency))
    /\ ret' = NoCall
    /\ UNCHANGED <<users, groups, plans, currencies, retries, subs, txns,
                   lists, details, now>>

CreateTransaction(t, user, plan_cost, amount, type) ==
    /\ t \notin DOMAIN txns
    /\ user \in users \cup {NULL}
    /\ plan_cost \in (DOMAIN costs) \cup {NULL}
    /\ txns' = Insert(txns, t,
                      [user |-> user, subscription |-> plan_cost,
                       date_transaction |-> now, amount |-> amount,
                       transaction_type |-> type])
    /\ ret' = NoCall
    /\ UNCHANGED <<users, groups, plans, currencies, costs, retries, subs,
                   lists, details, now>>

CreateList(l) ==
    /\ l \notin lists
    /\ lists' = lists \cup {l}
    /\ ret' = NoCall
    /\ UNCHANGED <<users, groups, plans, currencies, costs, retries, subs,
                   txns, details, now>>

CreateDetail(d, plan_cost, plan_list) ==
    /\ d \notin DOMAIN details
    /\ plan_cost \in DOMAIN costs
    /\ plan_list \in lists
    /\ details' = Insert(details, d,
                         [plan |-> plan_cost, plan_list |-> plan_list])
    /\ ret' = NoCall
    /\ UNCHANGED <<users, groups, plans, currencies, costs, retries, subs,
                   txns, lists, now>>

\* --- SpecDelete: rows of every table created and deleted (one retry
\* policy, the first the table hands out).
InitDelete ==
    /\ users = {}
    /\ groups = {}
    /\ plans = <<>>
    /\ currencies = {}
    /\ costs = <<>>
    /\ retries = <<>>
    /\ subs = <<>>
    /\ txns = <<>>
    /\ lists = {}
    /\ details = <<>>
    /\ now = 0
    /\ ret = NoCall

NextDelete ==
    \/ \E u \in UserIds : CreateUser(u)
    \/ \E g \in GroupIds : CreateGroup(g)
    \/ \E p \in PlanIds, g \in GroupIds \cup {NULL} : CreatePlan(p, g)
    \/ \E c \in CurrencyIds : CreateCurrency(c)
    \/ \E k \in CostIds, p \in PlanIds, c \in CurrencyIds \cup {NULL} :
          CreateCost(k, p, c)
    \/ CreateRetry(1, 1, 0)
    \/ \E k \in CostIds, u \in UserIds : AttachSubscription(k, u)
    \/ \E s \in DOMAIN subs : \E r \in DOMAIN retries :
          SaveSubscription(s, "retry", Some(r))
    \/ \E t \in TxnIds, u \in UserIds, k \in CostIds, a \in Amounts,
          ty \in TRANSACTION_TYPES :
          CreateTransaction(t, u, k, a, ty)
    \/ \E l \in ListIds : CreateList(l)
    \/ \E d \in DetailIds, k \in CostIds, l \in ListIds : CreateDetail(d, k, l)
    \/ \E u \in UserIds : DeleteUser(u)
    \/ \E g \in GroupIds : DeleteGroup(g)
    \/ \E p \in PlanIds : DeletePlan(p)
    \/ \E c \in CurrencyIds : DeleteCurrency(c)
    \/ \E k \in CostIds : DeleteCost(k)
    \/ \E r \in DOMAIN retries : DeleteRetry(r)
    \/ \E s \in SubIds : DeleteSubscription(s)
    \/ \E t \in TxnIds : DeleteTransaction(t)
    \/ \E l \in ListIds : DeleteList(l)
    \/ \E d \in DetailIds : DeleteDetail(d)

SpecDelete == InitDelete /\ [][NextDelete]_vars

\* ------------------------------------------------------------------ timedelta
\* A timedelta is (days, seconds, microseconds), normalised as Python does:
\* 0 <= seconds < 86400 and 0 <= microseconds < 1000000.
Normalize(d, sec, us) ==
    LET s2 == sec + (us \div 1000000)
    IN [days |-> d + (s2 \div 86400), seconds |-> s2 % 86400,
        microseconds |-> us % 1000000]

\* Unsigned integers wider than the checker's machine integers, as their
\* binary digits, least significant first.
RECURSIVE FromInt(_)
FromInt(n) == IF n = 0 THEN <<>> ELSE <<n % 2>> \o FromInt(n \div 2)

RECURSIVE ToInt(_)
ToInt(b) == IF b = <<>> THEN 0 ELSE Head(b) + 2 * ToInt(Tail(b))

RECURSIVE Trim(_)
Trim(b) ==
    IF b = <<>> THEN <<>>
    ELSE IF b[Len(b)] = 0 THEN Trim(SubSeq(b, 1, Len(b) - 1))
    ELSE b

IsZero(b) == \A i \in 1..Len(b) : b[i] = 0

RECURSIVE MulSmall(_, _, _)
MulSmall(b, k, carry) ==
    IF b = <<>> THEN FromInt(carry)
    ELSE LET t == Head(b) * k + carry
         IN <<t % 2>> \o MulSmall(Tail(b), k, t \div 2)

RECURSIVE Inc(_)
Inc(b) ==
    IF b = <<>> THEN <<1>>
    ELSE IF Head(b) = 0 THEN <<1>> \o Tail(b)
    ELSE <<0>> \o Inc(Tail(b))

\* Quotient and remainder of b by a small k, most significant digit first.
RECURSIVE DivModSmall(_, _, _, _)
DivModSmall(b, k, q, r) ==
    IF b = <<>> THEN [quot |-> q, rem |-> r]
    ELSE LET r2 == 2 * r + b[Len(b)]
         IN DivModSmall(SubSeq(b, 1, Len(b) - 1), k,
                        2 * q + (r2 \div k), r2 % k)

\* An IEEE-754 double m * 2^e, m of at most 53 binary digits (or 2^53).
\* RoundDouble is round-to-nearest, ties-to-even, of the exact value b * 2^e.
RoundDouble(b, e) ==
    LET t == Trim(b)
        L == Len(t)
        s == L - 53
    IN IF L <= 53 THEN [m |-> t, e |-> e]
       ELSE LET q == SubSeq(t, s + 1, L)
                low == SubSeq(t, 1, s)
                above == low[s] = 1 /\ ~IsZero(SubSeq(low, 1, s - 1))
                tie == low[s] = 1 /\ IsZero(SubSeq(low, 1, s - 1))
            IN [m |-> IF above \/ (tie /\ q[1] = 1) THEN Inc(q) ELSE q,
                e |-> e + s]

\* modf(x) of a double x >= 0 with e < 0: integral digits and fraction digits.
ModfInt(x) ==
    IF -x.e >= Len(x.m) THEN <<>> ELSE SubSeq(x.m, 1 - x.e, Len(x.m))
ModfFrac(x) ==
    IF -x.e >= Len(x.m) THEN x.m ELSE SubSeq(x.m, 1, -x.e)

\* The doubles nearest 30.4368 (0x1.e6fd21ff2e48fp+4) and 365.2425
\* (0x1.6d3e147ae147bp+8): 53-digit mantissa, in 16-digit groups from the
\* least significant, and exponent.
Pad16(b) == b \o [i \in 1..(16 - Len(b)) |-> 0]
Mantissa(g) == Pad16(FromInt(g[1])) \o Pad16(FromInt(g[2]))
                 \o Pad16(FromInt(g[3])) \o FromInt(g[4])
DaysPerMonth == [m |-> Mantissa(<<58511, 8178, 28626, 30>>), e |-> -48]
DaysPerYear == [m |-> Mantissa(<<5243, 18350, 54241, 22>>), e |-> -44]

\* float * int: the int converts exactly, the product rounds once.
FloatTimesInt(x, n) == RoundDouble(MulSmall(x.m, n, 0), x.e)

\* timedelta(days=<float>): the whole days are kept exactly; the fraction is
\* multiplied, as a double, by the 86400000000 microseconds of a day
\* (= 10546875 * 2^13), and what is left below a microsecond is rounded
\* half-to-even into the total.
TimedeltaOfFloatDays(x) ==
    LET whole == ToInt(ModfInt(x))
        frac == Trim(ModfFrac(x))
    IN IF frac = <<>> THEN Normalize(whole, 0, 0)
       ELSE LET usf == RoundDouble(MulSmall(frac, 10546875, 0), x.e + 13)
                usInt == ModfInt(usf)
                left == ModfFrac(usf)
                top == IF Len(left) >= -usf.e THEN left[-usf.e] ELSE 0
                rest == SubSeq(left, 1, -usf.e - 1)
                odd == usInt # <<>> /\ usInt[1] = 1
                up == IF top = 0 THEN 0
                      ELSE IF ~IsZero(rest) THEN 1
                      ELSE IF odd THEN 1 ELSE 0
                split == DivModSmall(usInt, 1000000, 0, 0)
            IN Normalize(whole, split.quot, split.rem + up)

timedelta_seconds(n) == Normalize(0, n, 0)
timedelta_minutes(n) == Normalize(0, 60 * n, 0)
timedelta_hours(n) == Normalize(0, 3600 * n, 0)
timedelta_days(n) == Normalize(n, 0, 0)
\* Faulty variant: timedelta(days=period) for a weekly plan.
timedelta_weeks_as_days(n) == Normalize(n, 0, 0)
timedelta_weeks(n) == Normalize(7 * n, 0, 0)

\* ------------------------------------------------------------------- datetime
\* A datetime is (day, second, microsecond): the proleptic Gregorian ordinal
\* of its date, 1..MAXORDINAL, and the time of day.
MAXORDINAL == 3652059

DatetimeAdd(current, delta) ==
    LET sum == Normalize(current.day + delta.days,
                         current.second + delta.seconds,
                         current.microsecond + delta.microseconds)
    IN IF 0 < sum.days /\ sum.days <= MAXORDINAL
       THEN Ok(Some([day |-> sum.days, second |-> sum.seconds,
                     microsecond |-> sum.microseconds]))
       ELSE Raise("OverflowError")

\* -------------------------------------------------------------------- PlanCost
\* Faulty variant: the last branch is a plain else, so ONCE is billed as YEAR.
BillingDeltaYearElse(cost) ==
    LET unit == cost.recurrence_unit
        period == cost.recurrence_period
    IN IF unit = SECOND THEN Some(timedelta_seconds(period))
       ELSE IF unit = MINUTE THEN Some(timedelta_minutes(period))
       ELSE IF unit = HOUR THEN Some(timedelta_hours(period))
       ELSE IF unit = DAY THEN Some(timedelta_days(period))
       ELSE IF unit = WEEK THEN Some(timedelta_weeks(period))
       ELSE IF unit = MONTH
       THEN Some(TimedeltaOfFloatDays(FloatTimesInt(DaysPerMonth, period)))
       ELSE Some(TimedeltaOfFloatDays(FloatTimesInt(DaysPerYear, period)))

\* The delta the if/elif chain picks for the cost's unit; None in the else
\* branch, where the method returns None.
BillingDelta(cost) ==
    LET unit == cost.recurrence_unit
        period == cost.recurrence_period
    IN IF unit = SECOND THEN Some(timedelta_seconds(period))
       ELSE IF unit = MINUTE THEN Some(timedelta_minutes(period))
       ELSE IF unit = HOUR THEN Some(timedelta_hours(period))
       ELSE IF unit = DAY THEN Some(timedelta_days(period))
       ELSE IF unit = WEEK THEN Some(timedelta_weeks(period))
       ELSE IF unit = MONTH
       THEN Some(TimedeltaOfFloatDays(FloatTimesInt(DaysPerMonth, period)))
       ELSE IF unit = YEAR
       THEN Some(TimedeltaOfFloatDays(FloatTimesInt(DaysPerYear, period)))
       ELSE None

next_billing_datetime(cost, current) ==
    LET delta == BillingDelta(cost)
    IN IF IsNone(delta) THEN Ok(None) ELSE DatetimeAdd(current, Val(delta))

CallNextBillingDatetime(k, current) ==
    /\ k \in DOMAIN costs
    /\ ret' = Call("next_billing_datetime", <<k, current>>,
                   next_billing_datetime(costs[k], current))
    /\ UNCHANGED <<users, groups, plans, currencies, costs, retries, subs,
                   txns, lists, details, now>>

\* --- SpecBilling: one plan cost of any unit and period, asked for the next
\* billing datetime of several timestamps.
\* Periods up to MaxPeriod, and a few up to the column's maximum, 32767.
Periods == (0..MaxPeriod) \cup {1374, 1375, 5760, 9998, 17816, 32761, 32767}

Timestamps ==
    {[day |-> 1, second |-> 0, microsecond |-> 0],
     [day |-> 737802, second |-> 86399, microsecond |-> 999999],
     [day |-> MAXORDINAL, second |-> 86399, microsecond |-> 999999]}

InitBilling ==
    /\ users = UserIds
    /\ groups = GroupIds
    /\ plans = [p \in PlanIds |-> [group |-> NULL]]
    /\ currencies = CurrencyIds
    /\ \E u \in RECURRENCE_UNIT_CHOICES, n \in Periods :
          costs = [k \in CostIds |->
                     [PlanCostDefaults("p1", "c1") EXCEPT
                         !.recurrence_unit = u, !.recurrence_period = n]]
    /\ retries = <<>>
    /\ subs = <<>>
    /\ txns = <<>>
    /\ lists = {}
    /\ details = <<>>
    /\ now = 0
    /\ ret = NoCall

NextBilling ==
    \E k \in CostIds, t \in Timestamps : CallNextBillingDatetime(k, t)

SpecBilling == InitBilling /\ [][NextBilling]_vars

\* --- Spec: attaching subscriptions and selecting those due for billing.
Init ==
    /\ InitCatalogue
    /\ retries = <<>>
    /\ subs = <<>>

Next ==
    \/ Tick
    \/ \E k \in CostIds, u \in UserIds : AttachSubscription(k, u)
    \/ \E s \in DOMAIN subs : \E e \in ChargeEdits :
          SaveSubscription(s, e[1], e[2])
    \/ CallToCharge

Spec == Init /\ [][Next]_vars

\* --- SpecRenewal: the retry schedule of subscriptions attached at time 0,
\* with one retry policy per offset.
InitRenewal ==
    /\ InitCatalogue
    /\ retries = [r \in RetryIds |-> [iteration |-> r, retry_offset |-> r - 1]]
    /\ subs = [s \in SubIds |-> AttachedRow("k1", "u1", 0)]

NextRenewal ==
    \/ Tick
    \/ \E s \in DOMAIN subs : \E e \in RenewalEdits :
          SaveSubscription(s, e[1], e[2])
    \/ CallFailedRenewals

SpecRenewal == InitRenewal /\ [][NextRenewal]_vars

\* --- SpecRetry: the retry policy table and its manager.
InitRetry ==
    /\ InitCatalogue
    /\ retries = <<>>
    /\ subs = <<>>

NextRetry ==
    \/ \E r \in RetryIds, i \in 1..MaxIteration, o \in 0..MaxOffset :
          CreateRetry(r, i, o)
    \/ \E r \in RetryIds : DeleteRetry(r)
    \/ CallFirstTry
    \/ \E c \in 0..MaxIteration : CallRetryNext(c)

SpecRetry == InitRetry /\ [][NextRetry]_vars

\* ===================================================================== claims
\* ----------------------------------------------------------------------- C1
\* The exact p-fold of a unit's defined delta: 1 s, 60 s, 3600 s, 1 day,
\* 7 days, 30.4368 days = 30 d 37739.52 s, 365.2425 days = 365 d 20952 s.
\* The fraction of a second is carried in hundredths.
DefinedDelta(unit) ==
    IF unit = SECOND THEN [days |-> 0, seconds |-> 1, centis |-> 0]
    ELSE IF unit = MINUTE THEN [days |-> 0, seconds |-> 60, centis |-> 0]
    ELSE IF unit = HOUR THEN [days |-> 0, seconds |-> 3600, centis |-> 0]
    ELSE IF unit = DAY THEN [days |-> 1, seconds |-> 0, centis |-> 0]
    ELSE IF unit = WEEK THEN [days |-> 7, seconds |-> 0, centis |-> 0]
    ELSE IF unit = MONTH THEN [days |-> 30, seconds |-> 37739, centis |-> 52]
    ELSE [days |-> 365, seconds |-> 20952, centis |-> 0]

ExactDelta(unit, p) ==
    LET d == DefinedDelta(unit)
        c == p * d.centis
        sec == p * d.seconds + (c \div 100)
    IN [days |-> p * d.days + (sec \div 86400), seconds |-> sec % 86400,
        microseconds |-> (c % 100) * 10000]

Elapsed(later, earlier) ==
    Normalize(later.day - earlier.day, later.second - earlier.second,
              later.microsecond - earlier.microsecond)

DeltaDiff(a, b) ==
    Normalize(a.days - b.days, a.seconds - b.seconds,
              a.microseconds - b.microseconds)

Under100us(err) ==
    \/ err.days = 0 /\ err.seconds = 0 /\ err.microseconds < 100
    \/ err.days = -1 /\ err.seconds = 86399 /\ err.microseconds > 999900

BilledCost == costs[ret.arg[1]]
BilledAt == ret.arg[2]
Billed == ret.op = "next_billing_datetime"

\* C1 as stated: for each of the seven recurring units, every period p and
\* every timestamp t, next_billing_datetime(t) - t is exactly p times the
\* unit's defined delta (read wherever the call returns at all).
C1_ExactDeltaForEveryPeriod ==
    (Billed /\ BilledCost.recurrence_unit # ONCE /\ ret.val.kind = "ok") =>
        /\ ~IsNone(ret.val.value)
        /\ Elapsed(Val(ret.val.value), BilledAt)
             = ExactDelta(BilledCost.recurrence_unit,
                          BilledCost.recurrence_period)

\* C1 amended: the result is a datetime unless t plus the delta passes
\* datetime.max (then OverflowError); it is exactly t + p * delta for
\* SECOND..WEEK, for MONTH with p <= 1374 and for YEAR with p <= 179; for
\* larger MONTH and YEAR periods the double-precision day count leaves it
\* less than 100 microseconds away from that.
C1_DeltaUpToFloatRounding ==
    (Billed /\ BilledCost.recurrence_unit # ONCE) =>
        LET unit == BilledCost.recurrence_unit
            p == BilledCost.recurrence_period
            exact == ExactDelta(unit, p)
        IN IF ret.val.kind = "ok"
           THEN /\ ~IsNone(ret.val.value)
                /\ LET err == DeltaDiff(Elapsed(Val(ret.val.value), BilledAt),
                                        exact)
                   IN /\ Under100us(err)
                      /\ (\/ unit \in {SECOND, MINUTE, HOUR, DAY, WEEK}
                          \/ unit = MONTH /\ p <= 1374
                          \/ unit = YEAR /\ p <= 179)
                            => err = Normalize(0, 0, 0)
           ELSE /\ ret.val.kind = "OverflowError"
                /\ BilledAt.day + exact.days >= MAXORDINAL

\* A yearly plan of period 180 was billed and the result is a microsecond
\* short of 180 * 365.2425 days.
C1_Witness ==
    /\ Billed
    /\ BilledCost.recurrence_unit = YEAR
    /\ BilledCost.recurrence_period = 180
    /\ ret.val.kind = "ok"
    /\ Elapsed(Val(ret.val.value), BilledAt)
         = [days |-> 65743, seconds |-> 56159, microseconds |-> 999999]

\* ----------------------------------------------------------------------- C2
\* C2: a ONCE plan cost has no next billing datetime (None) whatever the
\* timestamp and period, and a datetime comes back only for the seven
\* recurring units.
C2_OnceHasNoNextBilling ==
    Billed =>
        /\ BilledCost.recurrence_unit = ONCE => ret.val = Ok(None)
        /\ (ret.val.kind = "ok" /\ ~IsNone(ret.val.value)) =>
              BilledCost.recurrence_unit \in
                  {SECOND, MINUTE, HOUR, DAY, WEEK, MONTH, YEAR}

C2_Witness ==
    /\ Billed
    /\ BilledCost.recurrence_unit = ONCE
    /\ BilledCost.recurrence_period = 3
    /\ ret.val = Ok(None)

\* ----------------------------------------------------------------------- C3
\* Whole days from date_billing_last to now: the d with
\* d days <= now - last < d + 1 days.
WholeDaysSince(last) ==
    CHOOSE d \in (-MaxTime)..MaxTime :
        d * DayLen <= now - last /\ now - last < (d + 1) * DayLen

C4_FailedRenewalsReturnsDueRetries ==
    ret.op = "failed_renewals" =>
        /\ ret.val.kind = "ok"
        /\ \A s \in SubIds :
              s \in ret.val.value <=>
                  /\ s \in DOMAIN subs
                  /\ subs[s].active
                  /\ ~subs[s].cancelled
                  /\ subs[s].renewal_status = RETRYING
                  /\ for_retry(subs[s], now) = Ok(TRUE)

\* ----------------------------------------------------------------------- C5
\* C5: to_charge() returns exactly the ids of the active, not cancelled
\* subscriptions whose date_billing_next is set and not after now, whatever
\* their renewal_status.
C5_ToChargeReturnsDue ==
    ret.op = "to_charge" =>
        \A s \in SubIds :
            s \in ret.val <=>
                /\ s \in DOMAIN subs
                /\ subs[s].active
                /\ ~subs[s].cancelled
                /\ \E t \in 0..now : subs[s].date_billing_next = Some(t)

\* to_charge returned a FAILED subscription due exactly now and left out one
\* due later.
C5_Witness ==
    /\ ret.op = "to_charge"
    /\ \E s \in ret.val, q \in (DOMAIN subs) \ ret.val :
          /\ subs[s].renewal_status = FAILED
          /\ subs[s].date_billing_next = Some(now)
          /\ subs[q].active /\ ~subs[q].cancelled
          /\ subs[q].date_billing_next = Some(now + 1)

\* ----------------------------------------------------------------------- C6
Attached == ret.op = "attach_subscription"

\* The row attach_subscription returned carries the defaults and is selected
\* by neither query, now or later.
C6_FreshRow ==
    Attached =>
        /\ ret.val \in DOMAIN subs
        /\ subs[ret.val] =
              [user |-> ret.arg[2], subscription |-> ret.arg[1],
               date_billing_start |-> Some(now), date_billing_end |-> None,
               date_billing_last |-> None, date_billing_next |-> None,
               active |-> TRUE, cancelled |-> FALSE,
               renewal_status |-> RUNNING, retry |-> None]
        /\ \A t \in now..MaxTime :
              /\ ret.val \notin to_charge(t)
              /\ failed_renewals(t).kind = "ok"
                    => ret.val \notin failed_renewals(t).value

\* The call adds the returned row and leaves every other row as it was.
C6_OneNewRow ==
    (Attached' /\ ret' # ret) =>
        /\ ret'.val \notin DOMAIN subs
        /\ DOMAIN subs' = (DOMAIN subs) \cup {ret'.val}
        /\ \A s \in DOMAIN subs : subs'[s] = subs[s]

\* C6: attach_subscription(plan_cost, user) creates one new subscription of
\* that user and plan cost, active, not cancelled, RUNNING, without retry
\* policy, started now, its last/next/end dates unset; with those fields it
\* is in neither to_charge() nor failed_renewals(), now or later.
C6_AttachCreatesFreshSubscription == [](C6_FreshRow) /\ [][C6_OneNewRow]_vars

\* A second subscription was attached while the first is due for billing.
C6_Witness ==
    /\ Attached
    /\ now > 0
    /\ to_charge(now) # {}
    /\ ret.val \notin to_charge(now)

\* ----------------------------------------------------------------------- C7
WithIteration(n) == {r \in DOMAIN retries : retries[r].iteration = n}

\* C7: next(current) returns the retry of iteration current + 1 when exactly
\* one exists and None when none exists; first_try() returns the retry of
\* iteration 1 when exactly one exists and raises when none exists.
C7_NextReturnsNoneFirstTryRaises ==
    /\ ret.op = "next" =>
          /\ \A r \in DOMAIN retries :
                WithIteration(ret.arg + 1) = {r} => ret.val = Ok(Some(r))
          /\ WithIteration(ret.arg + 1) = {} => ret.val = Ok(None)
    /\ ret.op = "first_try" =>
          /\ \A r \in DOMAIN retries :
                WithIteration(1) = {r} => ret.val = Ok(r)
          /\ WithIteration(1) = {} => ret.val.kind = "DoesNotExist"

\* With a retry of iteration 2 only: first_try raised.
C7_Witness ==
    /\ ret.op = "first_try"
    /\ ret.val.kind = "DoesNotExist"
    /\ WithIteration(2) # {}

\* ----------------------------------------------------------------------- C8
\* Every non-null reference of a CASCADE column names an existing row.
RefsValid ==
    /\ \A k \in DOMAIN costs : costs[k].plan \in DOMAIN plans
    /\ \A s \in DOMAIN subs :
          /\ subs[s].user # NULL => subs[s].user \in users
          /\ subs[s].subscription # NULL
                => subs[s].subscription \in DOMAIN costs
          /\ ~IsNone(subs[s].retry) => Val(subs[s].retry) \in DOMAIN retries
    /\ \A d \in DOMAIN details :
          /\ details[d].plan \in DOMAIN costs
          /\ details[d].plan_list \in lists

\* Rows that referenced a removed row through a CASCADE column are removed.
CascadeStep ==
    /\ \A p \in (DOMAIN plans) \ DOMAIN plans' :
          \A k \in DOMAIN costs : costs[k].plan = p => k \notin DOMAIN costs'
    /\ \A c \in currencies \ currencies' :
          \A k \in DOMAIN costs :
              costs[k].currency = c => k \notin DOMAIN costs'
    /\ \A k \in (DOMAIN costs) \ DOMAIN costs' :
          /\ \A s \in DOMAIN subs :
                subs[s].subscription = k => s \notin DOMAIN subs'
          /\ \A d \in DOMAIN details :
                details[d].plan = k => d \notin DOMAIN details'
    /\ \A u \in users \ users' :
          \A s \in DOMAIN subs : subs[s].user = u => s \notin DOMAIN subs'
    /\ \A r \in (DOMAIN retries) \ DOMAIN retries' :
          \A s \in DOMAIN subs :
              subs[s].retry = Some(r) => s \notin DOMAIN subs'

\* C8: every plan cost's plan, every subscription's non-null user, plan cost
\* and retry policy, and every plan list detail's plan cost and plan list
\* exist; deleting a plan deletes its costs, deleting a cost or its currency
\* deletes the subscriptions and details on it, deleting a user or a retry
\* policy deletes the subscriptions referencing it.
C8_CascadesKeepReferencesValid == [](RefsValid) /\ [][CascadeStep]_vars

\* Deleting the plan took its cost, the subscription and the detail on it.
C8_Witness ==
    /\ ret.op = "delete"
    /\ ret.arg[3] = {"p1"}
    /\ ret.val >= 4
    /\ txns # <<>>

\* ----------------------------------------------------------------------- C9
\* What a step that removes a user, a plan cost or a group leaves behind.
SetNullStep ==
    /\ (users' # users \/ DOMAIN costs' # DOMAIN costs) =>
          \A t \in DOMAIN txns :
              /\ t \in DOMAIN txns'
              /\ txns'[t].amount = txns[t].amount
              /\ txns'[t].transaction_type = txns[t].transaction_type
              /\ txns'[t].date_transaction = txns[t].date_transaction
              /\ txns'[t].user =
                    IF txns[t].user \in users' THEN txns[t].user ELSE NULL
              /\ txns'[t].subscription =
                    IF txns[t].subscription \in DOMAIN costs'
                    THEN txns[t].subscription ELSE NULL
    /\ groups' # groups =>
          \A p \in DOMAIN plans :
              /\ p \in DOMAIN plans'
              /\ plans'[p].group =
                    IF plans[p].group \in groups' THEN plans[p].group
                    ELSE NULL

\* C9: a step that deletes a user or a plan cost keeps every transaction,
\* its amount, type and date unchanged, with the reference to what was
\* deleted set to null; a step that deletes a group keeps every plan, with
\* its group set to null if that was the group.
C9_SetNullKeepsRecords == [][SetNullStep]_vars

\* A transaction survived the deletion of both its user and its plan cost.
C9_Witness ==
    \E t \in DOMAIN txns :
        /\ txns[t].user = NULL
        /\ txns[t].subscription = NULL
        /\ txns[t].amount = Some(1)
        /\ txns[t].transaction_type = REFUND

====
